---------------------------- MODULE Spec2Model ----------------------------
(***************************************************************************)
(* Model of the CRM mutation engine of alx-backend-graphql_crm             *)
(* (crm/schema.py, crm/models.py): CreateCustomer, BulkCreateCustomers,    *)
(* CreateProduct and CreateOrder running as concurrent requests against    *)
(* one relational store.                                                   *)
(*                                                                         *)
(* Every request runs on its own database connection.  A handler is cut    *)
(* into steps at its database statements: what lies between two            *)
(* statements is local to the request and cannot be observed.  A handler   *)
(* without transaction.atomic runs in autocommit mode, so each of its      *)
(* statements is committed on its own; BulkCreateCustomers.mutate is       *)
(* wrapped in transaction.atomic, so its rows stay in txn[p] (visible to   *)
(* itself only) until the block exits; order.products.set() opens a        *)
(* transaction of its own.                                                 *)
(*                                                                         *)
(* The store is SQLite, Django's default backend, with its database-wide   *)
(* file locks, lock[p] being the one p's connection holds:                 *)
(*   - a query takes the SHARED lock, which a transaction keeps until it   *)
(*     ends; it waits while another connection holds the PENDING lock;     *)
(*   - an INSERT takes the RESERVED lock, which one connection holds at a  *)
(*     time: in autocommit mode it waits for it, in a transaction that     *)
(*     holds the SHARED lock it fails at once (database is locked);        *)
(*   - a commit of written rows raises the lock to PENDING and waits until *)
(*     no other connection holds the SHARED lock;                          *)
(*   - a wait ends with OperationalError when the timeout expires;          *)
(*   - a statement that fails inside a transaction leaves the connection's *)
(*     lock in place until the transaction is rolled back.                 *)
(*                                                                         *)
(* A character is its code point: 43 is "+", 49 is "1", 10 is a newline.   *)
(*                                                                         *)
(* Money is counted in mills (1/1000 of a currency unit) on input and in   *)
(* cents in the store: DecimalField(decimal_places=2) keeps two places.    *)
(***************************************************************************)
EXTENDS Integers, Sequences, FiniteSets

VARIABLES customers,          \* table crm_customer (committed rows)
          products,           \* table crm_product
          orders,             \* table crm_order
          order_products,     \* table crm_order_products (the M2M rows)
          txn,                \* txn[p]: rows p's open transaction has inserted
          lock,               \* lock[p]: the SQLite lock p's connection holds
          uuid,               \* primary keys handed out so far, per table
          pc,                 \* pc[p]: where request p stands in its handler
          op,                 \* op[p]: the mutation p runs (or ran last)
          input,              \* input[p]: that mutation's input (for a batch:
                              \* the inputs the loop has reached so far)
          customer_data,      \* customer_data[p]: the running iteration's input
          created_customers,  \* BulkCreateCustomers.mutate's local list
          validation_errors,  \* BulkCreateCustomers.mutate's local list
          order,              \* order[p]: the Order instance CreateOrder builds
          total,              \* total[p]: calculate_total_amount's loop: the
                              \* identifiers done and the sum so far
          objs,               \* objs[p]: the products order.products.set() got
          result,             \* result[p]: how p's last mutation ended
          calls               \* mutations started so far

vars == <<customers, products, orders, order_products, txn, lock, uuid, pc,
          op, input, customer_data, created_customers, validation_errors, order,
          total, objs, result, calls>>

(***************************************************************************)
(* Bounds of the model.                                                    *)
(***************************************************************************)
\* Mutations started in a behaviour of Spec.
MaxCalls == 2
\* Mutations started in a behaviour of SpecOrders.
MaxOrderCalls == 4
\* Inputs read by the batches in flight, taken together.
MaxBatch == 3
\* Length of a product_ids list.
MaxProductIds == 2

\* Two requests in flight at a time.
Procs == {1, 2}

(***************************************************************************)
(* Inputs.                                                                 *)
(***************************************************************************)
\* An optional string argument: absent (None), or given (possibly "").
NoPhone == [given |-> FALSE, chars |-> <<>>]
Phone(s) == [given |-> TRUE, chars |-> s]
\* "+123456789"
GoodPhone == Phone(<<43, 49, 50, 51, 52, 53, 54, 55, 56, 57>>)
\* "12345"
ShortPhone == Phone(<<49, 50, 51, 52, 53>>)
\* Nine ARABIC-INDIC digits, U+0661 to U+0669.
ArabicPhone == Phone(<<1633, 1634, 1635, 1636, 1637, 1638, 1639, 1640, 1641>>)
\* "12345678" and DEVANAGARI DIGIT ZERO, U+0966.
DevanagariPhone == Phone(<<49, 50, 51, 52, 53, 54, 55, 56, 2406>>)
\* "123456789\n"
NewlinePhone == Phone(<<49, 50, 51, 52, 53, 54, 55, 56, 57, 10>>)

CustomerInput(n, e, ph) == [name |-> n, email |-> e, phone |-> ph]

\* Inputs of BulkCreateCustomers: three valid ones, one without a name, one
\* with a phone that is too short.
BatchItems ==
  { CustomerInput("Al", "a@x.com", NoPhone),
    CustomerInput("Bo", "b@x.com", GoodPhone),
    CustomerInput("Cy", "c@x.com", Phone(<<>>)),
    CustomerInput("", "c@x.com", NoPhone),
    CustomerInput("Fy", "b@x.com", ShortPhone) }

\* Inputs of CreateCustomer: those, one with a malformed email, one with an
\* empty email, and two with phones the pattern accepts beyond ASCII digits.
Items ==
  BatchItems \cup
  { CustomerInput("Di", "bad", NoPhone),
    CustomerInput("Ed", "", NoPhone),
    CustomerInput("Gy", "a@x.com", ArabicPhone),
    CustomerInput("Hy", "c@x.com", NewlinePhone),
    CustomerInput("Iy", "b@x.com", DevanagariPhone) }

\* Inputs of CreateCustomer in SpecOrders.
OrderCustomers == { CustomerInput("Al", "a@x.com", NoPhone) }

\* An optional Int argument.
NoStock == [given |-> FALSE, value |-> 0]
Stock(n) == [given |-> TRUE, value |-> n]

\* price is a Decimal, counted here in mills: 4 is Decimal("0.004").
ProductInput(pr, st) == [name |-> "P", price |-> pr, stock |-> st]

ProductInputs ==
  { ProductInput(1000, NoStock),
    ProductInput(1525, Stock(5)),
    ProductInput(0, NoStock),
    ProductInput(-1000, Stock(5)),
    ProductInput(1000, Stock(-1)),
    ProductInput(4, Stock(0)) }

\* Primary keys an OrderInput may name.
IdPool == {1, 2}

ProductIdLists == UNION { [1..n -> IdPool] : n \in 0..MaxProductIds }

OrderInputs == [customer_id : IdPool, product_ids : ProductIdLists]

(***************************************************************************)
(* Validators.                                                             *)
(***************************************************************************)
\* django.core.validators.validate_email, on the addresses of Items: the
\* empty string and a string without "@" are rejected.
validate_email(email) == email \in {"a@x.com", "b@x.com", "c@x.com"}

\* \d of a str pattern: every Unicode decimal digit (category Nd), here by
\* the ranges of code points that Unicode 14.0.0, the character database of
\* CPython 3.11, puts in that category.
NdRanges ==
  { <<48, 57>>, <<1632, 1641>>, <<1776, 1785>>, <<1984, 1993>>,
    <<2406, 2415>>, <<2534, 2543>>, <<2662, 2671>>, <<2790, 2799>>,
    <<2918, 2927>>, <<3046, 3055>>, <<3174, 3183>>, <<3302, 3311>>,
    <<3430, 3439>>, <<3558, 3567>>, <<3664, 3673>>, <<3792, 3801>>,
    <<3872, 3881>>, <<4160, 4169>>, <<4240, 4249>>, <<6112, 6121>>,
    <<6160, 6169>>, <<6470, 6479>>, <<6608, 6617>>, <<6784, 6793>>,
    <<6800, 6809>>, <<6992, 7001>>, <<7088, 7097>>, <<7232, 7241>>,
    <<7248, 7257>>, <<42528, 42537>>, <<43216, 43225>>, <<43264, 43273>>,
    <<43472, 43481>>, <<43504, 43513>>, <<43600, 43609>>, <<44016, 44025>>,
    <<65296, 65305>>, <<66720, 66729>>, <<68912, 68921>>, <<69734, 69743>>,
    <<69872, 69881>>, <<69942, 69951>>, <<70096, 70105>>, <<70384, 70393>>,
    <<70736, 70745>>, <<70864, 70873>>, <<71248, 71257>>, <<71360, 71369>>,
    <<71472, 71481>>, <<71904, 71913>>, <<72016, 72025>>, <<72784, 72793>>,
    <<73040, 73049>>, <<73120, 73129>>, <<92768, 92777>>, <<92864, 92873>>,
    <<93008, 93017>>, <<120782, 120831>>, <<123200, 123209>>,
    <<123632, 123641>>, <<125264, 125273>>, <<130032, 130041>> }

Digits == UNION { r[1]..r[2] : r \in NdRanges }

\* re.match(r"^\+?\d{9,15}$", phone): an optional "+", 9 to 15 digits, and
\* the end of the string or one newline that ends it ($ matches before it).
re_match_phone(chars) ==
  LET rest == IF Len(chars) > 0 /\ chars[1] = 43 THEN Tail(chars) ELSE chars
      body == IF Len(rest) > 0 /\ rest[Len(rest)] = 10
              THEN SubSeq(rest, 1, Len(rest) - 1) ELSE rest
  IN  /\ Len(body) >= 9
      /\ Len(body) <= 15
      /\ \A k \in 1..Len(body) : body[k] \in Digits

\* Python truth of an optional string: None and "" are false.
Truthy(phone) == phone.given /\ Len(phone.chars) > 0

\* Customer.objects.filter(email=email).exists() over the rows `seen`.
email_exists(email, seen) == \E c \in seen : c.email = email

\* The iteration of BulkCreateCustomers.mutate gets past the checks of
\* lines 109-117, to the exists() query.
ReadsStore(in) == in.name # "" /\ in.email # "" /\ validate_email(in.email)

\* The checks of CreateCustomer.mutate, in order: the message of the
\* exception raised, or "ok".
CreateCustomer_checks(in, seen) ==
  IF ~validate_email(in.email) THEN "Invalid email address format."
  ELSE IF email_exists(in.email, seen) THEN "Email already exists."
  ELSE IF Truthy(in.phone) /\ ~re_match_phone(in.phone.chars)
       THEN "Invalid phone number format."
  ELSE "ok"

\* The checks of one iteration of BulkCreateCustomers.mutate, in order: the
\* message of the ValidationError raised, or "ok".
BulkCreateCustomers_checks(in, seen) ==
  IF in.name = "" THEN "Name is required."
  ELSE IF in.email = "" THEN "Email is required."
  ELSE IF ~validate_email(in.email) THEN "Invalid email address format for"
  ELSE IF email_exists(in.email, seen) THEN "already exists."
  ELSE IF Truthy(in.phone) /\ ~re_match_phone(in.phone.chars)
       THEN "Invalid phone number format for"
  ELSE "ok"

\* The checks of CreateProduct.mutate, in order.
CreateProduct_checks(in) ==
  IF in.price <= 0 THEN "Price must be a positive number."
  ELSE IF in.stock.given /\ in.stock.value < 0
       THEN "Stock cannot be a negative number."
  ELSE "ok"

(***************************************************************************)
(* The store.                                                              *)
(***************************************************************************)
CustomerRow(id, in) ==
  [id |-> id, name |-> in.name, email |-> in.email, phone |-> in.phone]

\* price = DecimalField(max_digits=10, decimal_places=2): the value written
\* is rounded to two places (half to even), mills to cents.
Quantize(mills) ==
  LET q == mills \div 10
      r == mills % 10
  IN  IF r < 5 THEN q
      ELSE IF r > 5 THEN q + 1
      ELSE IF q % 2 = 0 THEN q ELSE q + 1

\* Product.objects.create(name=name, price=price, stock=stock or 0)
ProductRow(id, in) ==
  [id |-> id, name |-> in.name, price |-> Quantize(in.price),
   stock |-> IF in.stock.given /\ in.stock.value # 0 THEN in.stock.value ELSE 0]

\* Order(customer=customer): a fresh primary key, total_amount at its
\* default, not yet saved.
NoOrder == [id |-> 0, customer |-> 0, total_amount |-> 0]
NewOrder(id, customer_id) == [id |-> id, customer |-> customer_id, total_amount |-> 0]

\* The rows a read of request p sees: what is committed, and what p's own
\* open transaction has written.
\* (A read that misses the transaction's own writes.)
Visible_committedOnly(p) == customers
Visible(p) == customers \cup txn[p]

\* p cannot take the SHARED lock: another connection holds PENDING.
ReadLocked(p) == \E q \in Procs \ {p} : lock[q] = "pending"

\* p cannot take the RESERVED lock: another connection holds it (PENDING
\* includes it).
WriteLocked(p) == \E q \in Procs \ {p} : lock[q] \in {"reserved", "pending"}

\* p cannot commit what it has written: another connection holds SHARED.
Readers(p) == \E q \in Procs \ {p} : lock[q] = "shared"

\* The statement p is about to run waits for a lock: a query of a
\* connection that holds none, an INSERT in autocommit mode, a commit of
\* written rows.
Blocked(p) ==
  \/ /\ pc[p] \in {"cc_exists", "bc_exists", "co_get", "co_total", "co_filter",
                   "co_set_read"}
     /\ lock[p] = "none"
     /\ ReadLocked(p)
  \/ /\ pc[p] \in {"cc_save", "cp_save", "co_save"}
     /\ WriteLocked(p)
  \/ /\ pc[p] \in {"cc_commit", "cp_commit", "co_save_commit", "co_set_wait",
                   "bc_commit"}
     /\ Readers(p)

\* Customer.email is unique=True: the INSERT raises IntegrityError.
\* (A table without the unique index.)
UniqueViolation_unenforced(p, email) == FALSE
UniqueViolation(p, email) == email_exists(email, customers \cup txn[p])

\* One iteration of Order.calculate_total_amount (lines 72-77):
\* Product.objects.get(pk=product_id) and total += float(product.price), or
\* the ValidationError of an identifier that does not resolve.  Prices are
\* in cents; total is a binary float in the code, and the sums of the
\* model's prices are exact in it.
calculate_total_amount(product_id, sum) ==
  IF \E pr \in products : pr.id = product_id
  THEN LET product == CHOOSE pr \in products : pr.id = product_id
       IN  [ok |-> TRUE, total |-> sum + product.price]
  ELSE [ok |-> FALSE, total |-> sum]

\* Product.objects.filter(pk__in=product_ids)
products_in(product_ids) ==
  { pr \in products : \E k \in 1..Len(product_ids) : product_ids[k] = pr.id }

\* total = 0.00, before the first identifier.
NoTotal == [done |-> 0, sum |-> 0]

NoResult == [kind |-> "none", message |-> ""]
Ok == [kind |-> "ok", message |-> ""]
Error(msg) == [kind |-> "error", message |-> msg]

Init ==
  /\ customers = {}
  /\ products = {}
  /\ orders = {}
  /\ order_products = {}
  /\ txn = [p \in Procs |-> {}]
  /\ lock = [p \in Procs |-> "none"]
  /\ uuid = [customer |-> 0, product |-> 0, order |-> 0]
  /\ pc = [p \in Procs |-> "idle"]
  /\ op = [p \in Procs |-> "none"]
  /\ input = [p \in Procs |-> <<>>]
  /\ customer_data = [p \in Procs |-> <<>>]
  /\ created_customers = [p \in Procs |-> <<>>]
  /\ validation_errors = [p \in Procs |-> <<>>]
  /\ order = [p \in Procs |-> NoOrder]
  /\ total = [p \in Procs |-> NoTotal]
  /\ objs = [p \in Procs |-> {}]
  /\ result = [p \in Procs |-> NoResult]
  /\ calls = 0

\* A request starts mutation `name` with input `in`.
Begin(p, name, in) ==
  /\ pc[p] = "idle"
  /\ calls' = calls + 1
  /\ op' = [op EXCEPT ![p] = name]
  /\ input' = [input EXCEPT ![p] = in]

\* The request's response is sent: its locals are gone.
Respond(p) ==
  /\ pc[p] = "done"
  /\ pc' = [pc EXCEPT ![p] = "idle"]
  /\ op' = [op EXCEPT ![p] = "none"]
  /\ input' = [input EXCEPT ![p] = <<>>]
  /\ customer_data' = [customer_data EXCEPT ![p] = <<>>]
  /\ created_customers' = [created_customers EXCEPT ![p] = <<>>]
  /\ validation_errors' = [validation_errors EXCEPT ![p] = <<>>]
  /\ order' = [order EXCEPT ![p] = NoOrder]
  /\ total' = [total EXCEPT ![p] = NoTotal]
  /\ objs' = [objs EXCEPT ![p] = {}]
  /\ result' = [result EXCEPT ![p] = NoResult]
  /\ UNCHANGED <<customers, products, orders, order_products, txn, lock, uuid,
                 calls>>

\* Inputs read so far by the batches in flight.
RECURSIVE InFlight(_)
InFlight(ps) ==
  IF ps = {} THEN 0
  ELSE LET q == CHOOSE x \in ps : TRUE
       IN  (IF op[q] = "BulkCreateCustomers" THEN Len(input[q]) ELSE 0)
           + InFlight(ps \ {q})

BulkLocals == <<customer_data, created_customers, validation_errors>>
OrderLocals == <<order, total, objs>>
OrderTables == <<products, orders, order_products>>

(***************************************************************************)
(* Failures of the store.                                                  *)
(***************************************************************************)
\* p's statement runs inside an atomic block: the one around
\* BulkCreateCustomers.mutate, or the one order.products.set() opens.
InAtomic(p) ==
  pc[p] \in {"bc_exists", "bc_create", "bc_commit", "co_set_read",
             "co_set_insert", "co_set_wait"}

\* A statement of p fails with a database error, which leaves the handler
\* (BulkCreateCustomers.mutate catches ValidationError only).  In autocommit
\* mode the statement is undone with the error, its lock released, and the
\* request ends.  Inside an atomic block the exception first reaches
\* Atomic.__exit__: the connection keeps its lock and what it has written
\* until the ROLLBACK issued there.
Raise(p, msg) ==
  /\ result' = [result EXCEPT ![p] = Error(msg)]
  /\ IF InAtomic(p)
     THEN /\ pc' = [pc EXCEPT ![p] = "rollback"]
          /\ UNCHANGED lock
     ELSE /\ pc' = [pc EXCEPT ![p] = "done"]
          /\ lock' = [lock EXCEPT ![p] = "none"]
  /\ UNCHANGED <<customers, txn>>

\* (An exit that commits what the failed block has written.)
Rollback_keepsWrites(p) ==
  /\ pc[p] = "rollback"
  /\ txn' = [txn EXCEPT ![p] = {}]
  /\ lock' = [lock EXCEPT ![p] = "none"]
  /\ customers' = customers \cup txn[p]
  /\ pc' = [pc EXCEPT ![p] = "done"]
  /\ UNCHANGED <<uuid, op, input, result, calls, BulkLocals, OrderLocals,
                 OrderTables>>

\* Atomic.__exit__ of a block left by a database error: the ROLLBACK, which
\* drops the rows written, releases the connection's lock and waits for
\* nothing; the request ends in the error raised.
Rollback(p) ==
  /\ pc[p] = "rollback"
  /\ txn' = [txn EXCEPT ![p] = {}]
  /\ lock' = [lock EXCEPT ![p] = "none"]
  /\ UNCHANGED customers
  /\ pc' = [pc EXCEPT ![p] = "done"]
  /\ UNCHANGED <<uuid, op, input, result, calls, BulkLocals, OrderLocals,
                 OrderTables>>

\* The statement p waits in is given up when the connection's timeout
\* expires: OperationalError (database is locked).
LockTimeout(p) ==
  /\ Blocked(p)
  /\ Raise(p, "OperationalError")
  /\ UNCHANGED <<uuid, op, input, calls, BulkLocals, OrderLocals, OrderTables>>

(***************************************************************************)
(* CreateCustomer.mutate                                                   *)
(***************************************************************************)
\* Lines 67-76: validate_email, which reads nothing from the store.
CreateCustomer_begin(p, in) ==
  /\ Begin(p, "CreateCustomer", in)
  /\ IF validate_email(in.email)
     THEN /\ pc' = [pc EXCEPT ![p] = "cc_exists"]
          /\ UNCHANGED result
     ELSE /\ pc' = [pc EXCEPT ![p] = "done"]
          /\ result' = [result EXCEPT ![p] = Error(CreateCustomer_checks(in, {}))]
  /\ UNCHANGED <<customers, txn, lock, uuid, BulkLocals, OrderLocals, OrderTables>>

\* Lines 78-84: the exists() pre-check, a query in autocommit mode, and the
\* phone check.
CreateCustomer_exists(p) ==
  /\ pc[p] = "cc_exists"
  /\ ~Blocked(p)
  /\ LET msg == CreateCustomer_checks(input[p], Visible(p))
     IN  IF msg = "ok"
         THEN /\ pc' = [pc EXCEPT ![p] = "cc_save"]
              /\ UNCHANGED result
         ELSE /\ pc' = [pc EXCEPT ![p] = "done"]
              /\ result' = [result EXCEPT ![p] = Error(msg)]
  /\ UNCHANGED <<customers, txn, lock, uuid, op, input, calls, BulkLocals,
                 OrderLocals, OrderTables>>

\* Line 85, customer.save(): the INSERT in autocommit mode takes the
\* RESERVED lock and checks the unique index of Customer.email; it then
\* holds the lock, as PENDING, until its row is committed.
CreateCustomer_save(p) ==
  /\ pc[p] = "cc_save"
  /\ ~Blocked(p)
  /\ IF UniqueViolation(p, input[p].email)
     THEN /\ pc' = [pc EXCEPT ![p] = "done"]
          /\ result' = [result EXCEPT ![p] = Error("IntegrityError")]
          /\ UNCHANGED lock
     ELSE /\ pc' = [pc EXCEPT ![p] = "cc_commit"]
          /\ lock' = [lock EXCEPT ![p] = "pending"]
          /\ UNCHANGED result
  /\ UNCHANGED <<customers, txn, uuid, op, input, calls, BulkLocals, OrderLocals,
                 OrderTables>>

\* Lines 85-87: the row of customer.save() is committed, once no other
\* connection holds the SHARED lock.
CreateCustomer_commit(p) ==
  /\ pc[p] = "cc_commit"
  /\ ~Blocked(p)
  /\ uuid' = [uuid EXCEPT !.customer = @ + 1]
  /\ customers' = customers \cup {CustomerRow(uuid.customer + 1, input[p])}
  /\ lock' = [lock EXCEPT ![p] = "none"]
  /\ pc' = [pc EXCEPT ![p] = "done"]
  /\ result' = [result EXCEPT ![p] = Ok]
  /\ UNCHANGED <<txn, op, input, calls, BulkLocals, OrderLocals, OrderTables>>

(***************************************************************************)
(* BulkCreateCustomers.mutate                                              *)
(***************************************************************************)
\* Entering transaction.atomic (BEGIN, which takes no lock); the two result
\* lists start empty.  The handler reads input[k] in iteration k and not
\* before, so the model draws it when the loop reaches it.
BulkCreateCustomers_begin(p) ==
  /\ Begin(p, "BulkCreateCustomers", <<>>)
  /\ pc' = [pc EXCEPT ![p] = "bc_loop"]
  /\ UNCHANGED <<customers, txn, lock, uuid, result, BulkLocals, OrderLocals,
                 OrderTables>>

\* except ValidationError: the error is recorded and the loop goes on.
\* (A handler that swallows the error without recording it.)
BulkCreateCustomers_except_dropped(p, in, msg) ==
  /\ UNCHANGED validation_errors
  /\ pc' = [pc EXCEPT ![p] = "bc_loop"]

BulkCreateCustomers_except(p, in, msg) ==
  /\ validation_errors' =
       [validation_errors EXCEPT ![p] = Append(@, [for |-> in.email, message |-> msg])]
  /\ pc' = [pc EXCEPT ![p] = "bc_loop"]

\* Lines 103-117: the next customer_data and the checks that read nothing
\* from the store.
BulkCreateCustomers_validate(p, in) ==
  /\ pc[p] = "bc_loop"
  /\ InFlight(Procs) < MaxBatch
  /\ input' = [input EXCEPT ![p] = Append(@, in)]
  /\ customer_data' = [customer_data EXCEPT ![p] = in]
  /\ IF ReadsStore(in)
     THEN /\ pc' = [pc EXCEPT ![p] = "bc_exists"]
          /\ UNCHANGED validation_errors
     ELSE BulkCreateCustomers_except(p, in, BulkCreateCustomers_checks(in, {}))
  /\ UNCHANGED <<customers, txn, lock, uuid, op, created_customers, OrderLocals,
                 result, calls, OrderTables>>

\* Lines 119-123: the exists() check, a query inside the transaction, which
\* takes the SHARED lock if the connection holds none, and the phone check.
BulkCreateCustomers_exists(p) ==
  /\ pc[p] = "bc_exists"
  /\ ~Blocked(p)
  /\ lock' = [lock EXCEPT ![p] = IF @ = "none" THEN "shared" ELSE @]
  /\ LET msg == BulkCreateCustomers_checks(customer_data[p], Visible(p))
     IN  IF msg = "ok"
         THEN /\ pc' = [pc EXCEPT ![p] = "bc_create"]
              /\ UNCHANGED validation_errors
         ELSE BulkCreateCustomers_except(p, customer_data[p], msg)
  /\ UNCHANGED <<customers, txn, uuid, op, input, customer_data,
                 created_customers, OrderLocals, result, calls, OrderTables>>

\* Lines 125-126: Customer.objects.create(**customer_data), an INSERT inside
\* the transaction, and the append to created_customers.  The first INSERT
\* takes the RESERVED lock, and fails at once when another connection holds
\* it; the INSERT checks the unique index of Customer.email.  A failed
\* INSERT leaves the transaction open until Atomic.__exit__.
BulkCreateCustomers_create(p) ==
  /\ pc[p] = "bc_create"
  /\ IF lock[p] # "reserved" /\ WriteLocked(p)
     THEN /\ Raise(p, "OperationalError")
          /\ UNCHANGED <<uuid, created_customers>>
     ELSE IF UniqueViolation(p, customer_data[p].email)
     THEN /\ Raise(p, "IntegrityError")
          /\ UNCHANGED <<uuid, created_customers>>
     ELSE LET row == CustomerRow(uuid.customer + 1, customer_data[p])
          IN  /\ uuid' = [uuid EXCEPT !.customer = @ + 1]
              /\ txn' = [txn EXCEPT ![p] = @ \cup {row}]
              /\ lock' = [lock EXCEPT ![p] = "reserved"]
              /\ created_customers' =
                   [created_customers EXCEPT ![p] = Append(@, row)]
              /\ pc' = [pc EXCEPT ![p] = "bc_loop"]
              /\ UNCHANGED <<customers, result>>
  /\ UNCHANGED <<op, input, customer_data, validation_errors, OrderLocals,
                 calls, OrderTables>>

\* Line 131 and the exit of transaction.atomic: the input is exhausted.  A
\* transaction that has written nothing ends there and the two lists are
\* returned; one that has written raises its lock to PENDING for the COMMIT.
BulkCreateCustomers_return(p) ==
  /\ pc[p] = "bc_loop"
  /\ IF lock[p] = "reserved"
     THEN /\ lock' = [lock EXCEPT ![p] = "pending"]
          /\ pc' = [pc EXCEPT ![p] = "bc_commit"]
          /\ UNCHANGED result
     ELSE /\ lock' = [lock EXCEPT ![p] = "none"]
          /\ pc' = [pc EXCEPT ![p] = "done"]
          /\ result' = [result EXCEPT ![p] = Ok]
  /\ UNCHANGED <<customers, txn, uuid, op, input, calls, BulkLocals, OrderLocals,
                 OrderTables>>

\* The COMMIT of the batch, once no other connection holds the SHARED lock;
\* the two lists are returned.
BulkCreateCustomers_commit(p) ==
  /\ pc[p] = "bc_commit"
  /\ ~Blocked(p)
  /\ customers' = customers \cup txn[p]
  /\ txn' = [txn EXCEPT ![p] = {}]
  /\ lock' = [lock EXCEPT ![p] = "none"]
  /\ pc' = [pc EXCEPT ![p] = "done"]
  /\ result' = [result EXCEPT ![p] = Ok]
  /\ UNCHANGED <<uuid, op, input, calls, BulkLocals, OrderLocals, OrderTables>>

(***************************************************************************)
(* CreateProduct.mutate                                                    *)
(***************************************************************************)
\* Lines 140-149: the two range checks.
CreateProduct(p, in) ==
  /\ Begin(p, "CreateProduct", in)
  /\ LET msg == CreateProduct_checks(in)
     IN  IF msg = "ok"
         THEN /\ pc' = [pc EXCEPT ![p] = "cp_save"]
              /\ UNCHANGED result
         ELSE /\ pc' = [pc EXCEPT ![p] = "done"]
              /\ result' = [result EXCEPT ![p] = Error(msg)]
  /\ UNCHANGED <<customers, txn, lock, uuid, BulkLocals, OrderLocals, OrderTables>>

\* Line 151, Product.objects.create: the INSERT in autocommit mode takes the
\* RESERVED lock and holds it, as PENDING, until its row is committed.
CreateProduct_save(p) ==
  /\ pc[p] = "cp_save"
  /\ ~Blocked(p)
  /\ lock' = [lock EXCEPT ![p] = "pending"]
  /\ pc' = [pc EXCEPT ![p] = "cp_commit"]
  /\ UNCHANGED <<customers, txn, uuid, op, input, result, calls, BulkLocals,
                 OrderLocals, OrderTables>>

\* Lines 151-153: the row of Product.objects.create is committed, once no
\* other connection holds the SHARED lock.
CreateProduct_commit(p) ==
  /\ pc[p] = "cp_commit"
  /\ ~Blocked(p)
  /\ uuid' = [uuid EXCEPT !.product = @ + 1]
  /\ products' = products \cup {ProductRow(uuid.product + 1, input[p])}
  /\ lock' = [lock EXCEPT ![p] = "none"]
  /\ pc' = [pc EXCEPT ![p] = "done"]
  /\ result' = [result EXCEPT ![p] = Ok]
  /\ UNCHANGED <<customers, orders, order_products, txn, op, input, calls,
                 BulkLocals, OrderLocals>>

(***************************************************************************)
(* CreateOrder.mutate                                                      *)
(***************************************************************************)
\* Lines 162-166: the arguments are taken from the input.
CreateOrder_begin(p, in) ==
  /\ Begin(p, "CreateOrder", in)
  /\ pc' = [pc EXCEPT ![p] = "co_get"]
  /\ UNCHANGED <<customers, txn, lock, uuid, result, BulkLocals, OrderLocals,
                 OrderTables>>

\* Lines 167-175: Customer.objects.get(pk=customer_id), a query in
\* autocommit mode, the emptiness check and the construction of the Order
\* instance.
CreateOrder_get(p) ==
  /\ pc[p] = "co_get"
  /\ ~Blocked(p)
  /\ IF ~\E c \in Visible(p) : c.id = input[p].customer_id
     THEN /\ pc' = [pc EXCEPT ![p] = "done"]
          /\ result' = [result EXCEPT ![p] =
                          Error("Customer with the given ID does not exist.")]
          /\ UNCHANGED <<order, uuid>>
     ELSE IF input[p].product_ids = <<>>
     THEN /\ pc' = [pc EXCEPT ![p] = "done"]
          /\ result' = [result EXCEPT ![p] =
                          Error("An order must contain at least one product.")]
          /\ UNCHANGED <<order, uuid>>
     ELSE /\ pc' = [pc EXCEPT ![p] = "co_total"]
          /\ uuid' = [uuid EXCEPT !.order = @ + 1]
          /\ order' = [order EXCEPT ![p] =
                         NewOrder(uuid.order + 1, input[p].customer_id)]
          /\ UNCHANGED result
  /\ UNCHANGED <<customers, products, orders, order_products, txn, lock, op,
                 input, calls, BulkLocals, total, objs>>

\* (A handler that saves the order before it computes the total.)
CreateOrder_raise_afterSave(p, msg) ==
  /\ orders' = orders \cup {order[p]}
  /\ UNCHANGED order
  /\ pc' = [pc EXCEPT ![p] = "done"]
  /\ result' = [result EXCEPT ![p] = Error(msg)]

\* The ValidationError of calculate_total_amount leaves mutate at line 177,
\* before order.save().
CreateOrder_raise(p, msg) ==
  /\ UNCHANGED <<orders, order>>
  /\ pc' = [pc EXCEPT ![p] = "done"]
  /\ result' = [result EXCEPT ![p] = Error(msg)]

\* Line 177, order.calculate_total_amount(product_ids): one iteration of its
\* loop, a query in autocommit mode; after the last one, line 78 sets
\* self.total_amount.
CreateOrder_total(p) ==
  /\ pc[p] = "co_total"
  /\ ~Blocked(p)
  /\ LET r == calculate_total_amount(input[p].product_ids[total[p].done + 1],
                                     total[p].sum)
     IN  IF ~r.ok
         THEN /\ CreateOrder_raise(p, "Product with ID does not exist.")
              /\ UNCHANGED total
         ELSE /\ total' = [total EXCEPT ![p] = [done |-> @.done + 1, sum |-> r.total]]
              /\ UNCHANGED <<orders, result>>
              /\ IF total[p].done + 1 = Len(input[p].product_ids)
                 THEN /\ order' = [order EXCEPT ![p].total_amount = r.total]
                      /\ pc' = [pc EXCEPT ![p] = "co_save"]
                 ELSE UNCHANGED <<order, pc>>
  /\ UNCHANGED <<customers, products, order_products, txn, lock, uuid, op, input,
                 calls, BulkLocals, objs>>

\* Line 178, order.save(): the INSERT in autocommit mode takes the RESERVED
\* lock and holds it, as PENDING, until its row is committed.
CreateOrder_save(p) ==
  /\ pc[p] = "co_save"
  /\ ~Blocked(p)
  /\ lock' = [lock EXCEPT ![p] = "pending"]
  /\ pc' = [pc EXCEPT ![p] = "co_save_commit"]
  /\ UNCHANGED <<customers, txn, uuid, op, input, result, calls, BulkLocals,
                 OrderLocals, OrderTables>>

\* Line 178: the row of order.save() is committed, once no other connection
\* holds the SHARED lock.
CreateOrder_save_commit(p) ==
  /\ pc[p] = "co_save_commit"
  /\ ~Blocked(p)
  /\ orders' = orders \cup {order[p]}
  /\ lock' = [lock EXCEPT ![p] = "none"]
  /\ pc' = [pc EXCEPT ![p] = "co_filter"]
  /\ UNCHANGED <<customers, products, order_products, txn, uuid, op, input,
                 result, calls, BulkLocals, OrderLocals>>

\* Lines 180-181: the queryset Product.objects.filter(pk__in=product_ids) is
\* evaluated when order.products.set(products) starts, by a query in
\* autocommit mode.
CreateOrder_filter(p) ==
  /\ pc[p] = "co_filter"
  /\ ~Blocked(p)
  /\ objs' = [objs EXCEPT ![p] = products_in(input[p].product_ids)]
  /\ pc' = [pc EXCEPT ![p] = "co_set_read"]
  /\ UNCHANGED <<customers, txn, lock, uuid, op, input, result, calls,
                 BulkLocals, order, total, OrderTables>>

\* Line 181, order.products.set(products): its transaction begins and
\* queries the association rows the order has (none: the order is new),
\* which takes the SHARED lock.
CreateOrder_set_read(p) ==
  /\ pc[p] = "co_set_read"
  /\ ~Blocked(p)
  /\ lock' = [lock EXCEPT ![p] = "shared"]
  /\ pc' = [pc EXCEPT ![p] = "co_set_insert"]
  /\ UNCHANGED <<customers, txn, uuid, op, input, result, calls, BulkLocals,
                 OrderLocals, OrderTables>>

\* Line 181: the INSERT of the association rows, inside set()'s transaction,
\* takes the RESERVED lock, and fails at once when another connection holds
\* it: the exception reaches Atomic.__exit__ of set() and then leaves mutate,
\* after order.save().
CreateOrder_set_insert(p) ==
  /\ pc[p] = "co_set_insert"
  /\ IF WriteLocked(p)
     THEN Raise(p, "OperationalError")
     ELSE /\ lock' = [lock EXCEPT ![p] = "reserved"]
          /\ pc' = [pc EXCEPT ![p] = "co_set_commit"]
          /\ UNCHANGED <<customers, txn, result>>
  /\ UNCHANGED <<uuid, op, input, calls, BulkLocals, OrderLocals, OrderTables>>

\* Line 181: set()'s transaction ends; its COMMIT raises the lock to
\* PENDING.
CreateOrder_set_commit(p) ==
  /\ pc[p] = "co_set_commit"
  /\ lock' = [lock EXCEPT ![p] = "pending"]
  /\ pc' = [pc EXCEPT ![p] = "co_set_wait"]
  /\ UNCHANGED <<customers, txn, uuid, op, input, result, calls, BulkLocals,
                 OrderLocals, OrderTables>>

\* Lines 181-183: the COMMIT of set()'s transaction goes through, once no
\* other connection holds the SHARED lock; the order is returned.
CreateOrder_return(p) ==
  /\ pc[p] = "co_set_wait"
  /\ ~Blocked(p)
  /\ order_products' =
       order_products \cup { <<order[p].id, pr.id>> : pr \in objs[p] }
  /\ lock' = [lock EXCEPT ![p] = "none"]
  /\ pc' = [pc EXCEPT ![p] = "done"]
  /\ result' = [result EXCEPT ![p] = Ok]
  /\ UNCHANGED <<customers, products, orders, txn, uuid, op, input, calls,
                 BulkLocals, OrderLocals>>

CustomerNext ==
  \E p \in Procs :
    \/ /\ calls < MaxCalls
       /\ \E in \in Items : CreateCustomer_begin(p, in)
    \/ CreateCustomer_exists(p)
    \/ CreateCustomer_save(p)
    \/ CreateCustomer_commit(p)
    \/ /\ calls < MaxCalls
       /\ BulkCreateCustomers_begin(p)
    \/ \E in \in BatchItems : BulkCreateCustomers_validate(p, in)
    \/ BulkCreateCustomers_exists(p)
    \/ BulkCreateCustomers_create(p)
    \/ BulkCreateCustomers_return(p)
    \/ BulkCreateCustomers_commit(p)
    \/ LockTimeout(p)
    \/ Rollback(p)
    \/ Respond(p)

OrderNext ==
  \E p \in Procs :
    \/ /\ calls < MaxOrderCalls
       /\ \E in \in OrderCustomers : CreateCustomer_begin(p, in)
    \/ CreateCustomer_exists(p)
    \/ CreateCustomer_save(p)
    \/ CreateCustomer_commit(p)
    \/ /\ calls < MaxOrderCalls
       /\ \E in \in ProductInputs : CreateProduct(p, in)
    \/ CreateProduct_save(p)
    \/ CreateProduct_commit(p)
    \/ /\ calls < MaxOrderCalls
       /\ \E in \in OrderInputs : CreateOrder_begin(p, in)
    \/ CreateOrder_get(p)
    \/ CreateOrder_total(p)
    \/ CreateOrder_save(p)
    \/ CreateOrder_save_commit(p)
    \/ CreateOrder_filter(p)
    \/ CreateOrder_set_read(p)
    \/ CreateOrder_set_insert(p)
    \/ CreateOrder_set_commit(p)
    \/ CreateOrder_return(p)
    \/ LockTimeout(p)
    \/ Rollback(p)
    \/ Respond(p)

\* Customers: CreateCustomer and BulkCreateCustomers requests.
Spec == Init /\ [][CustomerNext]_vars

\* Products and orders: CreateCustomer, CreateProduct and CreateOrder requests.
SpecOrders == Init /\ [][OrderNext]_vars

(***************************************************************************)
(* Properties.                                                             *)
(***************************************************************************)
Bulk(p) == op[p] = "BulkCreateCustomers"
Returned(p) == pc[p] = "done" /\ result[p].kind = "ok"
Failed(p) == pc[p] = "done" /\ result[p].kind = "error"

\* The input passes the checks of the chain that do not read the store.
WellFormed(in) == BulkCreateCustomers_checks(in, {}) = "ok"


SameFields(row, in) ==
  row.name = in.name /\ row.email = in.email /\ row.phone = in.phone

RECURSIVE SumPrices(_)
SumPrices(rows) ==
  IF rows = {} THEN 0
  ELSE LET pr == CHOOSE x \in rows : TRUE
       IN  pr.price + SumPrices(rows \ {pr})

\* C1: no two stored Customers share an email, whatever the interleaving of
\* CreateCustomer and BulkCreateCustomers requests; two CreateCustomer
\* requests for one email never both persist a Customer.
C1_UniqueEmails ==
  /\ \A c1, c2 \in customers : c1.email = c2.email => c1 = c2
  /\ \A p, q \in Procs :
       ( /\ p # q
         /\ op[p] = "CreateCustomer" /\ op[q] = "CreateCustomer"
         /\ input[p].email = input[q].email )
       => ~(Returned(p) /\ Returned(q))

\* C1, its case: two CreateCustomer requests for the same email have both
\* passed the exists() pre-check; one has persisted its Customer and the
\* other has ended in the store's IntegrityError.
C1_Witness ==
  \E p, q \in Procs :
    /\ p # q
    /\ op[p] = "CreateCustomer" /\ op[q] = "CreateCustomer"
    /\ input[p].email = input[q].email
    /\ Returned(p)
    /\ Failed(q) /\ result[q].message = "IntegrityError"
    /\ \E c \in customers : c.email = input[p].email

\* Walks the inputs of a returned batch in order: each input is either the
\* next created Customer (it passes the checks that do not read the store,
\* and its row is in the store) or the next error, whose message is the one
\* the checks give (without its email stored, or with it stored: a stored
\* email stays stored).
RECURSIVE Accounted(_, _, _)
Accounted(inp, cr, er) ==
  IF inp = <<>> THEN cr = <<>> /\ er = <<>>
  ELSE LET x == Head(inp)
       IN  \/ /\ cr # <<>>
              /\ SameFields(Head(cr), x)
              /\ Head(cr) \in customers
              /\ WellFormed(x)
              /\ Accounted(Tail(inp), Tail(cr), er)
           \/ /\ er # <<>>
              /\ Head(er).for = x.email
              /\ Head(er).message # "ok"
              /\ Head(er).message \in { BulkCreateCustomers_checks(x, {}),
                                        BulkCreateCustomers_checks(x, customers) }
              /\ Accounted(Tail(inp), cr, Tail(er))

\* C2: a BulkCreateCustomers call that returns has persisted every input
\* that passed validation and lists it in customers, in input order; every
\* input that failed validation was skipped and has exactly one error; so
\* len(customers) + len(errors) = len(input).
C2_BulkToleratesInvalidInputs ==
  \A p \in Procs :
    (Bulk(p) /\ Returned(p)) =>
      /\ Len(created_customers[p]) + Len(validation_errors[p]) = Len(input[p])
      /\ Accounted(input[p], created_customers[p], validation_errors[p])

\* C2, its case: a batch of 3 inputs of which exactly 1 has an email that was
\* already stored has returned 2 customers and 1 error, and the 2 customers
\* are in the store.
C2_Witness ==
  \E p \in Procs :
    /\ Bulk(p) /\ Returned(p)
    /\ Len(input[p]) = 3
    /\ Len(created_customers[p]) = 2
    /\ Len(validation_errors[p]) = 1
    /\ validation_errors[p][1].message = "already exists."
    /\ \A k \in 1..2 : created_customers[p][k].email # validation_errors[p][1].for
    /\ \A k \in 1..2 : created_customers[p][k] \in customers

\* C3: a BulkCreateCustomers call that fails at the store (the INSERT of an
\* input that had passed validation raises) leaves none of its customers in
\* the store, those written earlier in the batch included.
C3_BulkAllOrNothing ==
  \A p \in Procs :
    (Bulk(p) /\ Failed(p)) =>
      /\ txn[p] = {}
      /\ \A k \in 1..Len(created_customers[p]) :
           /\ created_customers[p][k] \notin customers
           /\ \A c \in customers : c.id # created_customers[p][k].id

\* C3, its case: the store has refused the writes of a batch (database is
\* locked) that had already written a customer.
C3_Witness ==
  \E p \in Procs :
    /\ Bulk(p) /\ Failed(p)
    /\ result[p].message = "OperationalError"
    /\ Len(created_customers[p]) >= 1

\* C4: no state holds an Order without an associated product (the order
\* row and its association rows appear together).
C4_OrderNeverWithoutProducts ==
  \A o \in orders : \E a \in order_products : a[1] = o.id

\* C5: for every Order a CreateOrder call has created and returned, the
\* stored total_amount is the sum of the prices of the products associated
\* with the order.
C5_TotalIsSumOfAssociated ==
  \A p \in Procs :
    (op[p] = "CreateOrder" /\ Returned(p)) =>
      \E o \in orders :
        /\ o.id = order[p].id
        /\ o.total_amount =
             SumPrices({ pr \in products : <<o.id, pr.id>> \in order_products })

\* The errors CreateOrder.mutate raises itself.
CreateOrderErrors ==
  { "Customer with the given ID does not exist.",
    "An order must contain at least one product.",
    "Product with ID does not exist." }

\* Request p takes the step: it starts a mutation, or it moves on in its
\* handler.
Moves(p) == pc'[p] # pc[p] \/ total'[p] # total[p]

\* Every identifier of the list names a stored Product.
AllResolve(product_ids) ==
  \A k \in 1..Len(product_ids) : \E pr \in products : pr.id = product_ids[k]

\* A step of a CreateOrder call up to its computation of the total: it
\* changes no table, and the step that finds the customer missing, the list
\* empty or the identifier it looks up missing ends the call in an error.
C6_Step ==
  \A p \in Procs :
    ( /\ op'[p] = "CreateOrder"
      /\ pc[p] \in {"idle", "co_get", "co_total"}
      /\ Moves(p) ) =>
      /\ UNCHANGED <<customers, products, orders, order_products>>
      /\ ( /\ pc[p] = "co_get"
           /\ \/ ~\E c \in customers : c.id = input[p].customer_id
              \/ input[p].product_ids = <<>> )
           => (pc'[p] = "done" /\ result'[p].kind = "error")
      /\ ( /\ pc[p] = "co_total"
           /\ ~\E pr \in products :
                 pr.id = input[p].product_ids[total[p].done + 1] )
           => (pc'[p] = "done" /\ result'[p].kind = "error")

\* A CreateOrder call that has ended.  One whose customer id or one of whose
\* identifiers names nothing in the store, or whose list is empty, has
\* failed; one that has failed with one of the three errors has saved no
\* Order (where it had built none, it had not looked up a product either)
\* and the store holds no Order row and no association row of its Order;
\* and when the same call, run again, has returned, the store holds the
\* Order of that second call, with its association rows, and no Order of
\* the first: of the two calls exactly one Order.
C6_End ==
  \A p \in Procs :
    (op[p] = "CreateOrder" /\ pc[p] = "done") =>
      /\ ( \/ ~\E c \in customers : c.id = input[p].customer_id
           \/ input[p].product_ids = <<>>
           \/ ~AllResolve(input[p].product_ids) ) => Failed(p)
      /\ (Failed(p) /\ result[p].message \in CreateOrderErrors) =>
           /\ result[p].message # "Product with ID does not exist."
                => (order[p] = NoOrder /\ total[p] = NoTotal)
           /\ result[p].message = "Product with ID does not exist."
                => (order[p].id # 0 /\ total[p].done < Len(input[p].product_ids))
           /\ \A o \in orders : o.id # order[p].id
           /\ \A a \in order_products : a[1] # order[p].id
           /\ objs[p] = {}
           /\ \A q \in Procs \ {p} :
                (op[q] = "CreateOrder" /\ Returned(q) /\ input[q] = input[p]) =>
                  /\ Cardinality({ o \in orders :
                                     o.id \in {order[p].id, order[q].id} }) = 1
                  /\ order[q] \in orders
                  /\ \E a \in order_products : a[1] = order[q].id

\* C6: a CreateOrder call whose customer id does not resolve, whose
\* product_ids is empty, or one of whose identifiers does not resolve (even
\* when earlier identifiers of the list do) returns an error and leaves the
\* store unchanged: none of its steps changes a table, no Order row and no
\* association row of it exists, and re-running the call after the missing
\* product was created leaves exactly one Order of the two calls.
C6_FailedCreateOrderWritesNothing == []C6_End /\ [][C6_Step]_vars

\* C6, its case: a CreateOrder naming a product that exists and then one
\* that does not has failed after the first lookup succeeded, and the store
\* holds no Order row and no association row.
C6_Witness ==
  \E p \in Procs :
    /\ op[p] = "CreateOrder" /\ Failed(p)
    /\ result[p].message = "Product with ID does not exist."
    /\ Len(input[p].product_ids) = 2
    /\ total[p].done = 1
    /\ \E pr \in products : pr.id = input[p].product_ids[1]
    /\ orders = {}
    /\ order_products = {}

\* C7: CreateCustomer persists a Customer only if name and email are
\* non-empty, the email is well formed and the phone, when given and
\* non-empty, matches the phone format.
C7_CreateCustomerAllOrNothing ==
  \A p \in Procs :
    (op[p] = "CreateCustomer" /\ Returned(p)) =>
      /\ input[p].name # ""
      /\ input[p].email # ""
      /\ validate_email(input[p].email)
      /\ Truthy(input[p].phone) => re_match_phone(input[p].phone.chars)

\* C8: every stored Product has price > 0 and stock >= 0.
C8_ProductRanges ==
  \A pr \in products : pr.price > 0 /\ pr.stock >= 0

\* The store without the Customer holding `email`: what a request creating
\* that Customer started from, as far as its own checks can tell.
Without(email) == { c \in customers : c.email # email }

\* C9: BulkCreateCustomers and CreateCustomer decide alike on a single input:
\* an input CreateCustomer has persisted passes the checks of
\* BulkCreateCustomers from the same store, an input BulkCreateCustomers has
\* created passes those of CreateCustomer, and the one input of a batch
\* that was recorded as an error fails those of CreateCustomer.
C9_SameChainAsCreateCustomer ==
  \A p \in Procs :
    /\ (op[p] = "CreateCustomer" /\ Returned(p)) =>
         BulkCreateCustomers_checks(input[p], Without(input[p].email)) = "ok"
    /\ Bulk(p) =>
         \A k \in 1..Len(created_customers[p]) :
           CreateCustomer_checks(created_customers[p][k],
                                 Without(created_customers[p][k].email)) = "ok"
    /\ (Bulk(p) /\ Returned(p) /\ Len(input[p]) = 1
          /\ Len(validation_errors[p]) = 1) =>
         CreateCustomer_checks(input[p][1], customers) # "ok"

\* Walks the inputs of a returned batch in order, with the emails the batch
\* has created so far: an input whose email the batch has already created
\* is an error, and one with a name and a well-formed email is rejected as
\* 'already exists'.
RECURSIVE LaterOccurrencesRejected(_, _, _, _)
LaterOccurrencesRejected(inp, cr, er, seen) ==
  IF inp = <<>> THEN TRUE
  ELSE LET x == Head(inp)
       IN  IF cr # <<>> /\ SameFields(Head(cr), x) /\ x.email \notin seen
              /\ WellFormed(x)
           THEN LaterOccurrencesRejected(Tail(inp), Tail(cr), er,
                                         seen \cup {x.email})
           ELSE /\ er # <<>>
                /\ Head(er).for = x.email
                /\ (x.email \in seen /\ ReadsStore(x))
                     => Head(er).message = "already exists."
                /\ LaterOccurrencesRejected(Tail(inp), cr, Tail(er), seen)

\* C10: within one BulkCreateCustomers call the uniqueness check of an input
\* sees the customers written by earlier inputs of the batch: an input that
\* has passed the checks never carries an email the batch has written, the
\* batch creates an email at most once, and each later occurrence of a
\* created email is rejected with 'already exists'.
C10_FirstWins ==
  \A p \in Procs :
    Bulk(p) =>
      /\ pc[p] = "bc_create" => ~email_exists(customer_data[p].email, txn[p])
      /\ \A j, k \in 1..Len(created_customers[p]) :
           created_customers[p][j].email = created_customers[p][k].email => j = k
      /\ Returned(p) =>
           LaterOccurrencesRejected(input[p], created_customers[p],
                                    validation_errors[p], {})

\* C10, its case: a batch has named an email twice that the store did not
\* hold; the first occurrence was created and the second was rejected with
\* 'already exists'.
C10_Witness ==
  \E p \in Procs :
    /\ Bulk(p) /\ Returned(p)
    /\ Len(input[p]) >= 2
    /\ Len(created_customers[p]) >= 1
    /\ SameFields(created_customers[p][1], input[p][1])
    /\ input[p][2].email = input[p][1].email
    /\ WellFormed(input[p][2])
    /\ Len(validation_errors[p]) >= 1
    /\ validation_errors[p][1] = [for |-> input[p][1].email,
                                  message |-> "already exists."]

=============================================================================
